---- MODULE Spec2Model ----
(***************************************************************************)
(* archhive: the archival orchestration of cli.js (main, retryableMethod,  *)
(* reportProgress) and the two archive tasks of src/archive.js (aoArchive, *)
(* atArchive, createShortURL).                                             *)
(*                                                                         *)
(* URLs are sequences of substrings, cut where the code inspects them      *)
(* ('/submit', 'wip/'); the unset value (undefined, falsy) is <<>>.        *)
(* Milliseconds are two-limb numbers <<hi, lo>> of value hi * 10^6 + lo.   *)
(***************************************************************************)
EXTENDS Integers, Sequences, FiniteSets, TLC

\* ---------------------------------------------------------------- bounds
\* Retries the operator accepts in one run, over both targets (the code has no cap).
MaxRetries == 2
\* Non-200 answers of the save page that are counted (the loop is unbounded).
MaxNon200 == 1

\* Values a generator yields before it must return or throw.
MaxItems == 3

\* ------------------------------------------------------------- constants
Sites == {"ao", "at"}

Undefined == <<>>
Auto == <<"auto">>
None == <<"none">>

TargetUrl == <<"http://example.com">>

SaveEndpoint == <<"https://web.archive.org", "/save">>
AoSnapshot == <<"https://web.archive.org", "/web/2024/", "http://example.com">>
AoPredefined == <<"https://web.archive.org", "/web/2019/", "http://example.com">>

AtLanding == <<"https://archive.today", "/">>
AtSnapshot == <<"https://archive.today", "/", "abc123">>
AtWip == <<"https://archive.today", "/", "wip/", "abc123">>
AtSubmit == <<"https://archive.today", "/submit", "/">>
AtPredefined == <<"https://archive.today", "/", "old456">>

\* What page.url() of the archive.today page can be after a navigation, and
\* when a navigation failed.
AtPageUrls == {AtSnapshot, AtWip, AtSubmit}
AtCrashUrls == AtPageUrls \cup {AtLanding}

CustomAlias == <<"myalias">>
\* The placeholders of --debug screenshot.
AoDebug == <<"archive.org/debug">>
AtDebug == <<"archive.today/debug">>

GeneratedShort == <<"https://v.gd/", "Xy12Zq">>

\* retries: 15 of the crawl-result poll.
retries == 15

\* const ONE_YEAR = 31556952000 (ms).
ONE_YEAR == <<31556, 952000>>

\* new Date().getTime() at the renewal check (ms).
NowMs == <<1700000, 0>>

Limb == 1000 * 1000

\* ------------------------------------------------------ two-limb numbers
MsSub(a, b) ==
    IF a[2] >= b[2] THEN <<a[1] - b[1], a[2] - b[2]>>
    ELSE <<a[1] - b[1] - 1, a[2] + Limb - b[2]>>

MsAdd(a, b) ==
    IF a[2] + b[2] < Limb THEN <<a[1] + b[1], a[2] + b[2]>>
    ELSE <<a[1] + b[1] + 1, a[2] + b[2] - Limb>>

MsGt(a, b) == a[1] > b[1] \/ (a[1] = b[1] /\ a[2] > b[2])

\* ------------------------------------------------------------ URL helpers
\* String.prototype.includes on the substrings the code looks for.
Includes(u, part) == \E i \in 1..Len(u) : u[i] = part

\* String.prototype.replace(part, ''): the FIRST occurrence only.
ReplaceFirst(u, part) ==
    IF Includes(u, part)
    THEN LET i == CHOOSE k \in 1..Len(u) :
                      u[k] = part /\ \A j \in 1..(k - 1) : u[j] # part
         IN SubSeq(u, 1, i - 1) \o SubSeq(u, i + 1, Len(u))
    ELSE u

Truthy(u) == u # Undefined

\* ------------------------------------------------------------------ state
VARIABLES
    argv,          \* the parsed command line (url, aoUrl, atUrl, shorturl, renew, debug)
    chan,          \* per site: the items passed between generator and reportProgress
    browser,       \* "open" | "closed": the shared browser of main
    sup,           \* per site: the retryableMethod promise chain
    ao,            \* locals and position of the running aoArchive generator
    at,            \* locals and position of the running atArchive generator
    main           \* position and locals of main's try block

vars == <<argv, browser, sup, ao, at, main, chan>>

NoErr == [site |-> "", kind |-> "", inv |-> 0]

AoIdle == [pc |-> "idle", page |-> "none", polls |-> 0, non200 |-> 0,
           archiveOrgUrl |-> Undefined, archiveOrgShortUrl |-> Undefined, warned |-> FALSE,
           sawEndpoint |-> FALSE]

InvalidDate == <<>>

AtIdle == [pc |-> "idle", page |-> "none", pageUrl |-> Undefined, currentUrl |-> Undefined,
           originalUrl |-> Undefined, archiveTodayUrl |-> Undefined,
           already |-> FALSE, archivedDate |-> InvalidDate, rearchive |-> FALSE,
           resubmitted |-> FALSE, declined |-> FALSE]

SupStart == [state |-> "running", invocations |-> 1, failures |-> 0, thrown |-> NoErr,
             reported |-> 0, prompts |-> 0, accepted |-> 0, err |-> NoErr,
             rejection |-> NoErr, result |-> <<>>]

\* An iterator result { value, done } as reportProgress holds it in item; value
\* is the yielded thing: its kind, the site that yielded it and its number.
NoItem == [kind |-> "", from |-> "", n |-> 0]

\* One run of reportProgress(iterator, progress) after line 242 called
\* iterator.next(): gen is the generator (running | suspended | done | failed),
\* rp the consumer (awaiting | prompting | returned | rejected), emitted the
\* values yielded, handled the values reportProgress took out of item, asked
\* the answers enquirer.prompt resolved with, received what the yield
\* expressions evaluated to in the generator.
ChanStart == [gen |-> "running", rp |-> "awaiting", item |-> NoItem, emitted |-> <<>>,
              handled |-> <<>>, asked |-> <<>>, received |-> <<>>]

\* The command lines modelled, as main has them after line 134: every aoUrl
\* with every atUrl, every value of shorturl and of renew, with --debug unset
\* or --debug screenshot.
\* aoArchive reads shorturl and never renew, atArchive renew and never
\* shorturl, so the two are varied together.
Options == {<<Undefined, "auto">>, <<CustomAlias, "auto">>, <<None, "no">>,
            <<Undefined, "manual">>}

Argvs ==
    {[url |-> TargetUrl, aoUrl |-> a, atUrl |-> t, shorturl |-> o[1], renew |-> o[2],
      debug |-> d] :
        a \in {Auto, None, AoPredefined}, t \in {Auto, None, AtPredefined},
        o \in Options, d \in {Undefined, <<"screenshot">>}}

\* Mutant: --debug screenshot leaves the archive URLs as given.
DebugArgv_Identity(a) == a

\* Lines 136-142: with --debug screenshot an automatic target is replaced by a
\* placeholder URL, and no short URL is made for the placeholder.
DebugArgv(a) ==
    IF a.debug = <<"screenshot">>
    THEN [a EXCEPT !.aoUrl = IF a.aoUrl = Auto THEN AoDebug ELSE @,
                   !.shorturl = IF a.aoUrl = Auto THEN None ELSE @,
                   !.atUrl = IF a.atUrl = Auto THEN AtDebug ELSE @]
    ELSE a

\* State when main reaches line 190: the browser is launched and the loop of
\* lines 170-188 has called retryableMethod once for each archive method.
Init ==
    /\ argv \in {DebugArgv(a) : a \in Argvs}
    /\ browser = "open"
    /\ chan = [p \in Sites |-> ChanStart]
    /\ sup = [s \in Sites |-> SupStart]
    /\ ao = AoIdle
    /\ at = AtIdle
    /\ main = [pc |-> "archiving", archiveUrls |-> [url |-> argv.url],
               screenshotCalls |-> 0, screenshotArg |-> <<>>, err |-> NoErr,
               failed |-> FALSE, exitCode |-> 0]

\* ------------------------------------------------- results and the merge
\* Mutant: the primary task's result also carries a url key.
AoResult_WithUrl(archiveOrgUrl, archiveOrgShortUrl) ==
    [url |-> archiveOrgUrl, archiveOrgUrl |-> archiveOrgUrl,
     archiveOrgShortUrl |-> archiveOrgShortUrl]

\* return { archiveOrgUrl, archiveOrgShortUrl }
AoResult(archiveOrgUrl, archiveOrgShortUrl) ==
    [archiveOrgUrl |-> archiveOrgUrl, archiveOrgShortUrl |-> archiveOrgShortUrl]

\* Mutant: the secondary task's result also carries an unset archiveOrgUrl.
AtResult_WithOrgUrl(archiveTodayUrl) ==
    [archiveTodayUrl |-> archiveTodayUrl, archiveOrgUrl |-> Undefined]

\* return { archiveTodayUrl }
AtResult(archiveTodayUrl) == [archiveTodayUrl |-> archiveTodayUrl]

\* { ...a, ...b }: every own key of b, set or unset, overrides a's.
Spread(a, b) ==
    [k \in (DOMAIN a) \cup (DOMAIN b) |-> IF k \in DOMAIN b THEN b[k] ELSE a[k]]

\* Mutant: the loop stops after the first result.
MergeResults_FirstOnly(archiveUrls, aoResult, atResult) == Spread(archiveUrls, aoResult)

\* for (const result of archiveResults) archiveUrls = { ...archiveUrls, ...result }
MergeResults(archiveUrls, aoResult, atResult) ==
    Spread(Spread(archiveUrls, aoResult), atResult)

\* ---------------------------------------------------- retryableMethod
Running(s) == sup[s].state = "running"

\* The error object a task throws in invocation number inv.
Err(s, kind) == [site |-> s, kind |-> kind, inv |-> sup[s].invocations]

\* Mutant: the catch handler asks 'Retry?' without logging the error.
Caught_Unreported(f, s, e) ==
    [f EXCEPT ![s].state = "prompting", ![s].prompts = @ + 1, ![s].err = e]

\* The generator threw: reportProgress rejects and the catch handler logs the
\* error (console.error) and asks 'Retry?' before its first await.
Caught(f, s, e) ==
    [f EXCEPT ![s].state = "prompting",
                ![s].reported = @ + 1,
                ![s].prompts = @ + 1,
                ![s].err = e]

\* The generator returned: reportProgress resolves with the returned value.
Returned(s, value) ==
    [sup EXCEPT ![s].state = "resolved", ![s].result = value]

\* A generator of site s throws an error of the given kind.
Throw(s, kind) ==
    LET e == Err(s, kind)
    IN  Caught([sup EXCEPT ![s].failures = @ + 1, ![s].thrown = e], s, e)

\* Mutant: a new error is thrown in place of the caught one.
Rethrow_Wrapped(e) == [e EXCEPT !.kind = "wrapped"]

\* else throw e
Rethrow(e) == e

\* Mutant: an accepted retry starts both archive methods again.
retryableMethod_Retry_Both(s) ==
    /\ sup[s].state = "prompting"
    /\ sup["ao"].accepted + sup["at"].accepted < MaxRetries
    /\ sup' = [t \in Sites |-> [sup[t] EXCEPT !.state = "running",
                                              !.invocations = @ + 1,
                                              !.thrown = NoErr,
                                              !.err = NoErr,
                                              !.result = <<>>,
                                              !.accepted = IF t = s THEN @ + 1 ELSE @]]
    /\ ao' = AoIdle /\ at' = AtIdle
    /\ UNCHANGED <<chan, argv, browser, main>>

\* The operator answers the 'Retry?' prompt of one site.
\* retry: return retryableMethod(args), a fresh generator of the same method.
retryableMethod_Retry(s) ==
    /\ sup[s].state = "prompting"
    /\ sup["ao"].accepted + sup["at"].accepted < MaxRetries
    /\ sup' = [sup EXCEPT ![s].state = "running",
                          ![s].accepted = @ + 1,
                          ![s].invocations = @ + 1,
                          ![s].thrown = NoErr,
                          ![s].err = NoErr]
    /\ IF s = "ao" THEN ao' = AoIdle /\ at' = at ELSE at' = AtIdle /\ ao' = ao
    /\ UNCHANGED <<chan, argv, browser, main>>

retryableMethod_Decline(s) ==
    /\ sup[s].state = "prompting"
    /\ sup' = [sup EXCEPT ![s].state = "rejected",
                          ![s].rejection = Rethrow(sup[s].err)]
    /\ UNCHANGED <<chan, argv, browser, ao, at, main>>


\* ---------------------------------------------------------- createShortURL
\* The answer of v.gd: r.ok, or a refusal (alias taken, or any other error).
\* "unreachable": fetch itself rejects.
ShortResponses == {"ok", "taken", "error", "unreachable"}

\* Mutant: every refusal is thrown, with or without a custom alias.
createShortURL_Strict(url, shorturl, response) ==
    IF response = "ok"
    THEN [threw |-> FALSE, warned |-> FALSE,
          value |-> IF Truthy(shorturl) THEN <<"https://v.gd/">> \o shorturl
                    ELSE GeneratedShort]
    ELSE [threw |-> TRUE, warned |-> FALSE, value |-> Undefined]

\* createShortURL(url, shorturl): what the promise settles to for an answer.
createShortURL(url, shorturl, response) ==
    IF response = "unreachable"
    THEN [threw |-> TRUE, warned |-> FALSE, value |-> Undefined]
    ELSE IF response = "ok"
    THEN [threw |-> FALSE, warned |-> FALSE,
          value |-> IF Truthy(shorturl) THEN <<"https://v.gd/">> \o shorturl
                    ELSE GeneratedShort]
    ELSE IF Truthy(shorturl)
    THEN [threw |-> FALSE, warned |-> TRUE, value |-> <<"https://v.gd/">> \o shorturl]
    ELSE [threw |-> TRUE, warned |-> FALSE, value |-> Undefined]

\* ---------------------------------------------------------------- aoArchive
\* What document.querySelector('#spn-result a').href can read.
Links == {SaveEndpoint, AoSnapshot}

\* Mutant: the poll accepts whatever link it reads.
PollThrows_Never(aoUrl) == FALSE

\* if (aoUrl === 'https://web.archive.org/save') throw new Error()
PollThrows(aoUrl) == aoUrl = SaveEndpoint

\* Lines 9-12 and 57-59: open the page, or take the pre-defined URL.
aoArchive_Start ==
    /\ Running("ao") /\ ao.pc = "idle"
    /\ IF argv.aoUrl = Auto
       THEN IF browser = "open"
            THEN /\ ao' = [ao EXCEPT !.pc = "submitting", !.page = "open"]
                 /\ sup' = sup
            ELSE /\ sup' = Throw("ao", "error")
                 /\ ao' = [AoIdle EXCEPT !.pc = "failed", !.page = ao.page]
       ELSE /\ ao' = [ao EXCEPT !.pc = "shorturl",
                                !.archiveOrgUrl =
                                    IF argv.aoUrl # None THEN argv.aoUrl ELSE Undefined]
            /\ sup' = sup
    /\ UNCHANGED <<chan, argv, browser, at, main>>

\* saveResponse.status() of the save page.
Statuses == {200, 503}

\* Mutant: whatever the save page answers, the loop ends.
savePageLoaded_Any(status) == TRUE

\* Lines 18-25: savePageLoaded after one turn of the loop.
savePageLoaded(status) == status = 200

\* Lines 14-26, one turn of the loop with a non-200 answer: log, wait, again.
aoArchive_SaveNot200(status) ==
    /\ Running("ao") /\ ao.pc = "submitting"
    /\ browser = "open"
    /\ ~savePageLoaded(status)
    /\ ao.non200 < MaxNon200
    /\ ao' = [ao EXCEPT !.non200 = @ + 1]
    /\ UNCHANGED <<chan, argv, browser, sup, at, main>>

\* Lines 14-37 with a 200 answer: fill the form, submit, wait for navigation.
aoArchive_Submit(status) ==
    /\ Running("ao") /\ ao.pc = "submitting"
    /\ browser = "open"
    /\ savePageLoaded(status)
    /\ ao' = [ao EXCEPT !.pc = "polling"]
    /\ UNCHANGED <<chan, argv, browser, sup, at, main>>

\* page.goto, page.evaluate or the submit navigation rejects.
aoArchive_SubmitThrows ==
    /\ Running("ao") /\ ao.pc = "submitting"
    /\ sup' = Throw("ao", "error")
    /\ ao' = [AoIdle EXCEPT !.pc = "failed", !.page = ao.page]
    /\ UNCHANGED <<chan, argv, browser, at, main>>

\* Mutant: retry() never gives up.
RetriesLeft_Always(polls) == TRUE

\* async-retry with retries: 15: a failed attempt is retried while fewer than
\* 15 retries were made.
RetriesLeft(polls) == polls < retries

\* Lines 38-56, one attempt of retry(): the selector times out (read = <<>>,
\* also every attempt once the browser is gone) or a link is read.
aoArchive_Poll(read) ==
    /\ Running("ao") /\ ao.pc = "polling"
    /\ read # Undefined => browser = "open"
    /\ IF read = Undefined \/ PollThrows(read)
       THEN IF RetriesLeft(ao.polls)
            THEN \* onRetry: page.reload, then the next attempt
                 /\ ao' = [ao EXCEPT !.polls = @ + 1,
                                     !.sawEndpoint = @ \/ read = SaveEndpoint]
                 /\ sup' = sup
            ELSE /\ sup' = Throw("ao", "error")
                 /\ ao' = [AoIdle EXCEPT !.pc = "failed", !.page = ao.page,
                                         !.polls = ao.polls,
                                         !.sawEndpoint = ao.sawEndpoint \/ read = SaveEndpoint]
       ELSE /\ ao' = [ao EXCEPT !.pc = "shorturl", !.archiveOrgUrl = read,
                                !.page = "closed"]
            /\ sup' = sup
    /\ UNCHANGED <<chan, argv, browser, at, main>>

\* Lines 61-67: the optional short URL, then the return.
aoArchive_Return(response) ==
    /\ Running("ao") /\ ao.pc = "shorturl"
    /\ IF Truthy(ao.archiveOrgUrl) /\ argv.shorturl # None
       THEN LET r == createShortURL(ao.archiveOrgUrl, argv.shorturl, response)
            IN  IF r.threw
                THEN /\ sup' = Throw("ao", "error")
                     /\ ao' = [AoIdle EXCEPT !.pc = "failed", !.page = ao.page]
                ELSE /\ ao' = [ao EXCEPT !.pc = "done",
                                         !.archiveOrgShortUrl = r.value,
                                         !.warned = r.warned]
                     /\ sup' = Returned("ao", AoResult(ao.archiveOrgUrl, r.value))
       ELSE /\ response = "ok"
            /\ ao' = [ao EXCEPT !.pc = "done"]
            /\ sup' = Returned("ao", AoResult(ao.archiveOrgUrl, ao.archiveOrgShortUrl))
    /\ UNCHANGED <<chan, argv, browser, at, main>>

\* ---------------------------------------------------------------- atArchive
\* new Date(archivedText.replace('archived ', '')) for the texts the page shows:
\* an unparsable text, and snapshots aged around one year at NowMs.
Ages == {MsSub(ONE_YEAR, <<0, 1000>>), ONE_YEAR, MsAdd(ONE_YEAR, <<0, 1>>)}

ArchivedDates == {InvalidDate} \cup {MsSub(NowMs, age) : age \in Ages}

\* archivedDate.getTime() is truthy: neither NaN nor 0.
DateParsed(archivedDate) == archivedDate # InvalidDate /\ archivedDate # <<0, 0>>

\* Mutant: an old snapshot is renewed whatever --renew says.
Rearchive_AnyPolicy(renew, archivedDate) ==
    /\ DateParsed(archivedDate)
    /\ MsGt(MsSub(NowMs, archivedDate), ONE_YEAR)

\* Mutant: the comparison with ONE_YEAR is turned around.
Rearchive_Inverted(renew, archivedDate) ==
    /\ DateParsed(archivedDate)
    /\ renew = "auto"
    /\ MsGt(ONE_YEAR, MsSub(NowMs, archivedDate))

\* Lines 114-127: the value of rearchive.
Rearchive(renew, archivedDate) ==
    /\ DateParsed(archivedDate)
    /\ renew = "auto"
    /\ MsGt(MsSub(NowMs, archivedDate), ONE_YEAR)

Titles == {"Attention Required!", "archive.today"}

\* Line 200: archiveTodayUrl.replace('wip/', '')
StripWip(archiveTodayUrl) == ReplaceFirst(archiveTodayUrl, "wip/")

\* Lines 99 and 174: return { archiveTodayUrl: <the URL the operator accepted> }
AcceptedCopy(existingUrl) == existingUrl

\* Lines 72-76 and 203-207.
atArchive_Start ==
    /\ Running("at") /\ at.pc = "idle"
    /\ IF argv.atUrl = Auto
       THEN IF browser = "open"
            THEN /\ at' = [at EXCEPT !.pc = "landing", !.page = "open"]
                 /\ sup' = sup
            ELSE /\ sup' = Throw("at", "error")
                 /\ at' = [AtIdle EXCEPT !.pc = "failed", !.page = at.page]
       ELSE LET archiveTodayUrl == IF argv.atUrl # None THEN argv.atUrl ELSE Undefined
            IN  /\ at' = [at EXCEPT !.pc = "done", !.archiveTodayUrl = archiveTodayUrl]
                /\ sup' = Returned("at", AtResult(archiveTodayUrl))
    /\ UNCHANGED <<chan, argv, browser, ao, main>>

\* Lines 77-80: load the landing page and fill in the URL.
atArchive_Landing ==
    /\ Running("at") /\ at.pc = "landing"
    /\ browser = "open"
    /\ at' = [at EXCEPT !.pc = "submit", !.pageUrl = AtLanding]
    /\ UNCHANGED <<chan, argv, browser, sup, ao, main>>

\* An await of lines 73-80 rejects (outside the try of line 81).
atArchive_LandingThrows ==
    /\ Running("at") /\ at.pc = "landing"
    /\ sup' = Throw("at", "error")
    /\ at' = [AtIdle EXCEPT !.pc = "failed", !.page = at.page]
    /\ UNCHANGED <<chan, argv, browser, ao, main>>

\* Lines 82-85 and 104: the submission navigates to the page u.
atArchive_Submit(u) ==
    /\ Running("at") /\ at.pc = "submit"
    /\ browser = "open"
    /\ at' = [at EXCEPT !.pc = "checking", !.pageUrl = u, !.originalUrl = u]
    /\ UNCHANGED <<chan, argv, browser, sup, ao, main>>

\* Lines 86-96: the submission rejects while the page is at u; the prompt is
\* yielded whatever page.url() is.
atArchive_SubmitCrash(u) ==
    /\ Running("at") /\ at.pc = "submit"
    /\ at' = [at EXCEPT !.pc = "promptCrash", !.pageUrl = u, !.currentUrl = u]
    /\ UNCHANGED <<chan, argv, browser, sup, ao, main>>

\* await page.close(); return { archiveTodayUrl: existingUrl }
AtAcceptExisting(existingUrl) ==
    IF browser = "open"
    THEN /\ at' = [AtIdle EXCEPT !.pc = "done", !.page = "closed",
                                 !.archiveTodayUrl = AcceptedCopy(existingUrl)]
         /\ sup' = Returned("at", AtResult(AcceptedCopy(existingUrl)))
    ELSE /\ sup' = Throw("at", "error")
         /\ at' = [AtIdle EXCEPT !.pc = "failed", !.page = at.page]

\* Lines 97-101: the operator's answer to the crash prompt.
atArchive_AnswerCrash(useArchived) ==
    /\ Running("at") /\ at.pc = "promptCrash"
    /\ IF useArchived
       THEN AtAcceptExisting(at.currentUrl)
       ELSE /\ sup' = Throw("at", "declined")
            /\ at' = [AtIdle EXCEPT !.pc = "failed", !.page = at.page]
    /\ UNCHANGED <<chan, argv, browser, ao, main>>

\* Lines 105-127: the already-archived marker, the date and the decision.
atArchive_Check(already, archivedDate) ==
    /\ Running("at") /\ at.pc = "checking"
    /\ browser = "open"
    /\ ~already => archivedDate = InvalidDate
    /\ LET rearchive == already /\ Rearchive(argv.renew, archivedDate)
       IN  at' = [at EXCEPT !.pc = IF rearchive THEN "rearchive" ELSE "resolving",
                            !.already = already,
                            !.archivedDate = archivedDate,
                            !.rearchive = rearchive]
    /\ UNCHANGED <<chan, argv, browser, sup, ao, main>>

\* retry() of line 105 or the evaluate of line 110 rejects.
atArchive_CheckThrows ==
    /\ Running("at") /\ at.pc = "checking"
    /\ sup' = Throw("at", "error")
    /\ at' = [AtIdle EXCEPT !.pc = "failed", !.page = at.page]
    /\ UNCHANGED <<chan, argv, browser, ao, main>>

\* Lines 131-135: the re-submission navigates to the page u.
atArchive_Rearchive(u) ==
    /\ Running("at") /\ at.pc = "rearchive"
    /\ browser = "open"
    /\ at' = [at EXCEPT !.pc = "resolving", !.pageUrl = u, !.resubmitted = TRUE,
                         !.archivedDate = InvalidDate]
    /\ UNCHANGED <<chan, argv, browser, sup, ao, main>>

\* Lines 136-145: the re-submission rejects; the prompt is yielded.
atArchive_RearchiveCrash ==
    /\ Running("at") /\ at.pc = "rearchive"
    /\ at' = [at EXCEPT !.pc = "promptRearchive", !.resubmitted = TRUE,
                         !.archivedDate = InvalidDate]
    /\ UNCHANGED <<chan, argv, browser, sup, ao, main>>

\* Lines 146-147.
atArchive_AnswerRearchive(useArchived) ==
    /\ Running("at") /\ at.pc = "promptRearchive"
    /\ IF useArchived
       THEN /\ at' = [at EXCEPT !.pc = "resolving", !.archiveTodayUrl = at.originalUrl]
            /\ sup' = sup
       ELSE /\ sup' = Throw("at", "declined")
            /\ at' = [AtIdle EXCEPT !.pc = "failed", !.page = at.page]
    /\ UNCHANGED <<chan, argv, browser, ao, main>>

\* Lines 200-207: strip the marker, close the page, report, return.
AtFinish(archiveTodayUrl) ==
    /\ at' = [AtIdle EXCEPT !.pc = "done", !.page = "closed",
                            !.archiveTodayUrl = StripWip(archiveTodayUrl),
                            !.declined = at.declined]
    /\ sup' = Returned("at", AtResult(StripWip(archiveTodayUrl)))

\* Mutant: a CAPTCHA is always put to the operator.
NoPriorSnapshot_Never(originalUrl) == FALSE

\* Line 161: the page reached by the submission was a submission page itself.
NoPriorSnapshot(originalUrl) == Includes(originalUrl, "/submit")

\* Lines 152-177 up to the CAPTCHA prompt, and lines 200-207 when the page
\* is no submission page.
atArchive_Resolve(pageTitle) ==
    /\ Running("at") /\ at.pc = "resolving"
    /\ browser = "open"
    /\ IF ~Truthy(at.archiveTodayUrl)
       THEN IF Includes(at.pageUrl, "/submit")
            THEN /\ IF pageTitle = "Attention Required!"
                    THEN IF NoPriorSnapshot(at.originalUrl)
                         THEN /\ sup' = Throw("at", "error")
                              /\ at' = [AtIdle EXCEPT !.pc = "failed", !.page = at.page]
                         ELSE /\ at' = [at EXCEPT !.pc = "promptCaptcha",
                                                  !.archiveTodayUrl = at.pageUrl,
                                                  !.archivedDate = InvalidDate]
                              /\ sup' = sup
                    ELSE /\ at' = [at EXCEPT !.pc = "body",
                                             !.archiveTodayUrl = at.pageUrl,
                                             !.archivedDate = InvalidDate]
                         /\ sup' = sup
            ELSE /\ pageTitle = "archive.today"
                 /\ AtFinish(at.pageUrl)
       ELSE /\ pageTitle = "archive.today"
            /\ AtFinish(at.archiveTodayUrl)
    /\ UNCHANGED <<chan, argv, browser, ao, main>>

\* Lines 172-176: the operator's answer to the CAPTCHA prompt; a refusal
\* falls through to the redirect check.
atArchive_AnswerCaptcha(useArchived) ==
    /\ Running("at") /\ at.pc = "promptCaptcha"
    /\ IF useArchived
       THEN AtAcceptExisting(at.originalUrl)
       ELSE /\ at' = [at EXCEPT !.pc = "body", !.declined = TRUE]
            /\ sup' = sup
    /\ UNCHANGED <<chan, argv, browser, ao, main>>

\* Lines 180-207: wipUrlMatch[1] is the redirect target, or <<>> without one.
atArchive_Body(wipUrl) ==
    /\ Running("at") /\ at.pc = "body"
    /\ browser = "open"
    /\ IF Truthy(wipUrl)
       THEN AtFinish(wipUrl)
       ELSE IF Includes(at.pageUrl, "/submit")
            THEN /\ sup' = Throw("at", "error")
                 /\ at' = [AtIdle EXCEPT !.pc = "failed", !.page = at.page]
            ELSE AtFinish(at.pageUrl)
    /\ UNCHANGED <<chan, argv, browser, ao, main>>

\* page.title(), page.evaluate or page.close of lines 155-201 rejects.
atArchive_ResolveThrows ==
    /\ Running("at") /\ at.pc \in {"resolving", "body"}
    /\ sup' = Throw("at", "error")
    /\ at' = [AtIdle EXCEPT !.pc = "failed", !.page = at.page]
    /\ UNCHANGED <<chan, argv, browser, ao, main>>

\* --------------------------------------------------------------------- main
\* Mutant: Promise.race, settled by the first promise that settles.
PromiseAll_Race(f) ==
    IF \E s \in Sites : f[s].state = "rejected" THEN "rejected"
    ELSE IF \E s \in Sites : f[s].state = "resolved" THEN "fulfilled"
    ELSE "pending"

\* Mutant: Promise.allSettled, fulfilled once no promise is pending.
PromiseAll_Settled(f) ==
    IF \A s \in Sites : f[s].state \in {"resolved", "rejected"} THEN "fulfilled"
    ELSE "pending"

\* Promise.all(activeArchiveMethods): rejected with the first rejection,
\* fulfilled once every promise is.
PromiseAll(f) ==
    IF \E s \in Sites : f[s].state = "rejected" THEN "rejected"
    ELSE IF \A s \in Sites : f[s].state = "resolved" THEN "fulfilled"
    ELSE "pending"

\* main's continuation after line 190 is a microtask of the settling promise:
\* it runs before any other event is handled.
MicrotaskPending == main.pc = "archiving" /\ PromiseAll(sup) # "pending"

\* Lines 190-199: merge the results and start the screenshot stage.
main_Merge ==
    /\ main.pc = "archiving" /\ PromiseAll(sup) = "fulfilled"
    /\ LET archiveUrls == MergeResults(main.archiveUrls, sup["ao"].result,
                                       sup["at"].result)
       IN  main' = [main EXCEPT !.pc = "screenshot",
                                !.archiveUrls = archiveUrls,
                                !.screenshotCalls = @ + 1,
                                !.screenshotArg = archiveUrls]
    /\ UNCHANGED <<chan, argv, browser, sup, ao, at>>

\* Lines 226-229: the rejection of Promise.all is caught.
main_Catch ==
    /\ main.pc = "archiving" /\ PromiseAll(sup) = "rejected"
    /\ \E s \in Sites :
          /\ sup[s].state = "rejected"
          /\ main' = [main EXCEPT !.pc = "closing", !.failed = TRUE,
                                  !.err = sup[s].rejection]
    /\ UNCHANGED <<chan, argv, browser, sup, ao, at>>

\* Lines 196-225: the screenshot generator runs to its end (it closes the
\* browser itself, screenshot.js lines 279-280), then the EXIF data and the
\* history line are written; or one of them throws (lines 226-229).
main_Screenshot(ok) ==
    /\ main.pc = "screenshot"
    /\ IF ok
       THEN /\ main' = [main EXCEPT !.pc = "closing"]
            /\ browser' = "closed"
       ELSE /\ main' = [main EXCEPT !.pc = "closing", !.failed = TRUE,
                                    !.err = [site |-> "main", kind |-> "screenshot",
                                             inv |-> 1]]
            /\ browser' \in {"open", "closed"}
    /\ UNCHANGED <<chan, argv, sup, ao, at>>

\* Mutant: main returns without closing the browser.
main_Close_Skipped ==
    /\ main.pc = "closing"
    /\ main' = [main EXCEPT !.pc = "ended"]
    /\ UNCHANGED <<chan, argv, browser, sup, ao, at>>

\* Line 231: await browser.close()
main_Close ==
    /\ main.pc = "closing"
    /\ main' = [main EXCEPT !.pc = "ended"]
    /\ browser' = "closed"
    /\ UNCHANGED <<chan, argv, sup, ao, at>>

\* Lines 234-238: main is an async function, so the call main() returns a
\* promise and never throws; the catch block with process.exit(1) is not
\* entered, and a rejection inside main is caught at lines 226-229. The process
\* ends when main has returned and neither task has work pending, with the
\* exit code it was started with.
process_Exit ==
    /\ main.pc = "ended"
    /\ \A s \in Sites : sup[s].state \in {"resolved", "rejected"}
    /\ main' = [main EXCEPT !.pc = "exited"]
    /\ UNCHANGED <<chan, argv, browser, sup, ao, at>>

\* ------------------------------------------- reportProgress, item by item
\* typeof item.value === 'string', item.value?.prompt, or anything else.
Kinds == {"string", "prompt", "other"}

\* What a confirm prompt resolves with.
Answers == {"yes", "no"}

NoReply == "undefined"

\* Mutant: the iterator is resumed by next() whatever the item was.
Reply_Dropped(value, answer) == NoReply

\* Lines 244-250: the argument of iterator.next: nothing for a string, the
\* resolved value of enquirer.prompt for a prompt.
Reply(value, answer) == IF value.kind = "prompt" THEN answer ELSE NoReply

\* The generator runs to its next yield: iterator.next() resolves with
\* { value, done: false } and the generator is suspended there.
iterator_Yield(p, kind) ==
    /\ chan[p].gen = "running" /\ Len(chan[p].emitted) < MaxItems
    /\ LET value == [kind |-> kind, from |-> p, n |-> Len(chan[p].emitted) + 1]
       IN  chan' = [chan EXCEPT ![p].gen = "suspended", ![p].item = value,
                                ![p].emitted = Append(@, value)]
    /\ UNCHANGED <<argv, browser, sup, ao, at, main>>

\* The generator returns: item.done, the loop of line 243 ends and
\* reportProgress returns item.value (line 256).
iterator_Return(p) ==
    /\ chan[p].gen = "running"
    /\ chan' = [chan EXCEPT ![p].gen = "done", ![p].rp = "returned", ![p].item = NoItem]
    /\ UNCHANGED <<argv, browser, sup, ao, at, main>>

\* The generator throws: the awaited iterator.next() rejects, and so does
\* reportProgress.
iterator_Throw(p) ==
    /\ chan[p].gen = "running"
    /\ chan' = [chan EXCEPT ![p].gen = "failed", ![p].rp = "rejected", ![p].item = NoItem]
    /\ UNCHANGED <<argv, browser, sup, ao, at, main>>

\* Lines 244-246: a string is shown and the generator resumed by next().
reportProgress_String(p) ==
    /\ chan[p].gen = "suspended" /\ chan[p].rp = "awaiting"
    /\ chan[p].item.kind = "string"
    /\ chan' = [chan EXCEPT ![p].gen = "running",
                            ![p].handled = Append(@, chan[p].item),
                            ![p].received = Append(@, Reply(chan[p].item, NoReply))]
    /\ UNCHANGED <<argv, browser, sup, ao, at, main>>

\* Lines 248-249: enquirer.prompt(item.value.prompt) is called and awaited.
reportProgress_Prompt(p) ==
    /\ chan[p].gen = "suspended" /\ chan[p].rp = "awaiting"
    /\ chan[p].item.kind = "prompt"
    /\ chan' = [chan EXCEPT ![p].rp = "prompting",
                            ![p].handled = Append(@, chan[p].item)]
    /\ UNCHANGED <<argv, browser, sup, ao, at, main>>

\* Line 249: the prompt resolves and its value is passed to iterator.next.
reportProgress_Answer(p, answer) ==
    /\ chan[p].rp = "prompting"
    /\ chan' = [chan EXCEPT ![p].gen = "running", ![p].rp = "awaiting",
                            ![p].asked = Append(@, [n |-> chan[p].item.n,
                                                    answer |-> answer]),
                            ![p].received = Append(@, Reply(chan[p].item, answer))]
    /\ UNCHANGED <<argv, browser, sup, ao, at, main>>

\* Lines 250-252: any other value ends reportProgress, which returns it; the
\* generator is never resumed.
reportProgress_Other(p) ==
    /\ chan[p].gen = "suspended" /\ chan[p].rp = "awaiting"
    /\ chan[p].item.kind = "other"
    /\ chan' = [chan EXCEPT ![p].rp = "returned",
                            ![p].handled = Append(@, chan[p].item)]
    /\ UNCHANGED <<argv, browser, sup, ao, at, main>>

\* ---------------------------------------------------------- specification
Next ==
    \/ main_Merge
    \/ main_Catch
    \/ ~MicrotaskPending /\ aoArchive_Start
    \/ ~MicrotaskPending /\ \E status \in Statuses : aoArchive_SaveNot200(status)
    \/ ~MicrotaskPending /\ \E status \in Statuses : aoArchive_Submit(status)
    \/ ~MicrotaskPending /\ aoArchive_SubmitThrows
    \/ ~MicrotaskPending /\ \E read \in Links \cup {Undefined} : aoArchive_Poll(read)
    \/ ~MicrotaskPending /\ \E response \in ShortResponses : aoArchive_Return(response)
    \/ ~MicrotaskPending /\ atArchive_Start
    \/ ~MicrotaskPending /\ atArchive_Landing
    \/ ~MicrotaskPending /\ atArchive_LandingThrows
    \/ ~MicrotaskPending /\ \E u \in AtPageUrls : atArchive_Submit(u)
    \/ ~MicrotaskPending /\ \E u \in AtCrashUrls : atArchive_SubmitCrash(u)
    \/ ~MicrotaskPending /\ \E useArchived \in BOOLEAN : atArchive_AnswerCrash(useArchived)
    \/ ~MicrotaskPending /\ \E already \in BOOLEAN, archivedDate \in ArchivedDates :
                 atArchive_Check(already, archivedDate)
    \/ ~MicrotaskPending /\ atArchive_CheckThrows
    \/ ~MicrotaskPending /\ \E u \in AtPageUrls : atArchive_Rearchive(u)
    \/ ~MicrotaskPending /\ atArchive_RearchiveCrash
    \/ ~MicrotaskPending /\ \E useArchived \in BOOLEAN : atArchive_AnswerRearchive(useArchived)
    \/ ~MicrotaskPending /\ \E pageTitle \in Titles : atArchive_Resolve(pageTitle)
    \/ ~MicrotaskPending /\ \E useArchived \in BOOLEAN : atArchive_AnswerCaptcha(useArchived)
    \/ ~MicrotaskPending /\ \E wipUrl \in AtPageUrls \cup {Undefined} : atArchive_Body(wipUrl)
    \/ ~MicrotaskPending /\ atArchive_ResolveThrows
    \/ ~MicrotaskPending /\ \E s \in Sites : retryableMethod_Retry(s)
    \/ ~MicrotaskPending /\ \E s \in Sites : retryableMethod_Decline(s)
    \/ ~MicrotaskPending /\ \E ok \in BOOLEAN : main_Screenshot(ok)
    \/ ~MicrotaskPending /\ main_Close
    \/ ~MicrotaskPending /\ process_Exit

Spec == Init /\ [][Next]_vars

\* The two reportProgress loops of one run, each with a generator that may
\* yield anything: the channel on its own, for one command line.
ChannelInit ==
    /\ Init
    /\ argv.aoUrl = Auto /\ argv.atUrl = Auto
    /\ argv.shorturl = Undefined /\ argv.renew = "auto" /\ argv.debug = Undefined

ChannelNext ==
    \/ \E p \in Sites, kind \in Kinds : iterator_Yield(p, kind)
    \/ \E p \in Sites : iterator_Return(p)
    \/ \E p \in Sites : iterator_Throw(p)
    \/ \E p \in Sites : reportProgress_String(p)
    \/ \E p \in Sites : reportProgress_Prompt(p)
    \/ \E p \in Sites, answer \in Answers : reportProgress_Answer(p, answer)
    \/ \E p \in Sites : reportProgress_Other(p)

ChannelSpec == ChannelInit /\ [][ChannelNext]_vars

\* ------------------------------------------------------------------ claims
ScreenshotStarted == main.screenshotCalls > 0

\* C1: the screenshot stage is never started before both retry-supervised
\* archive tasks have returned a result; a task that is running, waiting on
\* a retry prompt or being retried keeps it from starting.
C1_ScreenshotAfterBothTasks ==
    ScreenshotStarted => \A s \in Sites : sup[s].state = "resolved"

C1_Witness ==
    /\ ScreenshotStarted
    /\ sup["ao"].accepted = 1
    /\ sup["at"].accepted = 1

\* C2: once either supervised task has ended in failure (error reported,
\* retry declined) the screenshot stage is never invoked and no merged
\* record exists, also when the other task has succeeded.
C2_FailureAbortsRun ==
    (\E s \in Sites : sup[s].state = "rejected") =>
        /\ ~ScreenshotStarted
        /\ main.pc \in {"archiving", "closing", "ended", "exited"}
        /\ DOMAIN main.archiveUrls = {"url"}
        /\ main.pc # "archiving" => main.failed

C2_Witness ==
    /\ sup["ao"].state = "rejected"
    /\ sup["at"].state = "resolved"
    /\ main.pc = "ended"

FirstAttempts == \A s \in Sites : sup[s].state = "resolved" /\ sup[s].invocations = 1

\* C3: when both tasks succeed on their first attempt, the merged record
\* holds the primary task's archiveOrgUrl, the secondary task's
\* archiveTodayUrl and the original url, and the screenshot stage is invoked
\* exactly once, after both, with that record.
C3_FirstAttemptSuccess ==
    /\ main.screenshotCalls <= 1
    /\ (FirstAttempts /\ main.pc # "archiving") =>
          /\ DOMAIN main.archiveUrls =
                 {"url", "archiveOrgUrl", "archiveOrgShortUrl", "archiveTodayUrl"}
          /\ main.archiveUrls.archiveOrgUrl = sup["ao"].result.archiveOrgUrl
          /\ main.archiveUrls.archiveTodayUrl = sup["at"].result.archiveTodayUrl
          /\ main.archiveUrls.url = TargetUrl
          /\ main.screenshotCalls = 1
          /\ main.screenshotArg = main.archiveUrls

C3_Witness ==
    /\ FirstAttempts
    /\ main.pc = "ended" /\ ~main.failed
    /\ main.screenshotArg.archiveOrgUrl = AoSnapshot
    /\ main.screenshotArg.archiveTodayUrl = AtSnapshot
    /\ main.screenshotArg.url = TargetUrl

\* C4: the url field of the ArchiveUrls record equals the submitted target
\* URL from its creation to its hand-over to the screenshot stage, whatever
\* the two tasks returned.
C4_UrlPreserved ==
    /\ main.archiveUrls.url = argv.url
    /\ ScreenshotStarted => main.screenshotArg.url = argv.url

C4_Witness ==
    /\ ScreenshotStarted
    /\ main.screenshotArg.url = TargetUrl
    /\ main.screenshotArg.archiveOrgUrl = Undefined
    /\ main.screenshotArg.archiveTodayUrl = AtSnapshot

\* C5: every failure of a task is reported and prompted for exactly once,
\* and a supervisor that returns a result after n failures has invoked the
\* factory n + 1 times, after n reports, n prompts and n accepted retries.
C5_RetriesUntilSuccess ==
    \A s \in Sites :
        /\ sup[s].reported = sup[s].failures
        /\ sup[s].prompts = sup[s].failures
        /\ sup[s].state = "resolved" =>
              /\ sup[s].invocations = sup[s].failures + 1
              /\ sup[s].accepted = sup[s].failures

C5_Witness ==
    /\ sup["ao"].state = "resolved"
    /\ sup["ao"].failures = 2
    /\ sup["ao"].invocations = 3

TaskPc(s) == IF s = "ao" THEN ao.pc ELSE at.pc

\* C6: a declined retry re-throws the very failure the task threw and the
\* factory is not invoked again; every invocation after the first follows a
\* failure and an accepted prompt.
C6_DeclineRethrows ==
    \A s \in Sites :
        /\ sup[s].invocations = sup[s].accepted + 1
        /\ sup[s].accepted <= sup[s].failures
        /\ sup[s].state = "rejected" =>
              /\ sup[s].rejection = sup[s].thrown
              /\ sup[s].rejection.site = s
              /\ sup[s].rejection.inv = sup[s].invocations
              /\ sup[s].failures = sup[s].accepted + 1
              /\ TaskPc(s) = "failed"

C6_Witness ==
    /\ sup["at"].state = "rejected"
    /\ sup["at"].accepted = 1
    /\ sup["at"].rejection.kind = "declined"

\* C7: a poll that reads the submission endpoint is a failed attempt of the
\* retry, and the task in automatic mode never returns the submission
\* endpoint as archiveOrgUrl.
C7_EndpointIsNoResult ==
    argv.aoUrl = Auto =>
        /\ ao.archiveOrgUrl # SaveEndpoint
        /\ (ao.sawEndpoint /\ ao.pc # "failed") => ao.polls >= 1
        /\ sup["ao"].state = "resolved" =>
              sup["ao"].result.archiveOrgUrl # SaveEndpoint

C7_Witness ==
    /\ ao.sawEndpoint
    /\ sup["ao"].state = "resolved"
    /\ sup["ao"].result.archiveOrgUrl = AoSnapshot

\* C8: every URL the secondary task returns in automatic mode is free of the
\* work-in-progress marker 'wip/'.
C8_WipAlwaysStripped ==
    (argv.atUrl = Auto /\ sup["at"].state = "resolved") =>
        ~Includes(sup["at"].result.archiveTodayUrl, "wip/")

\* C9: with the already-archived marker present, the date parsed and the
\* policy 'auto', a snapshot older than 31556952000 ms is re-submitted
\* (at.pc = "rearchive": the click of line 133 is under way) and a snapshot
\* one second younger than that is not.
C9_RenewalThreshold ==
    (at.already /\ at.archivedDate # InvalidDate /\ argv.renew = "auto") =>
        /\ MsGt(MsSub(NowMs, at.archivedDate), <<31556, 952000>>) =>
              at.pc = "rearchive" /\ at.rearchive
        /\ at.archivedDate = MsSub(NowMs, <<31556, 951000>>) =>
              at.pc = "resolving" /\ ~at.rearchive

C9_Witness ==
    /\ at.pc = "rearchive"
    /\ at.already
    /\ argv.renew = "auto"
    /\ at.archivedDate = MsSub(NowMs, <<31556, 952001>>)

\* C10: a refusal of the shortening service is answered, when a custom alias
\* was requested, with https://v.gd/<alias> and a warning, and the primary
\* task returns; without a custom alias the refusal fails the primary task.
C10_AliasReuse ==
    [][\A response \in {"taken", "error"} :
          (/\ aoArchive_Return(response)
           /\ Truthy(ao.archiveOrgUrl)
           /\ argv.shorturl # None) =>
             IF Truthy(argv.shorturl)
             THEN /\ sup'["ao"].state = "resolved"
                  /\ sup'["ao"].result.archiveOrgShortUrl =
                         <<"https://v.gd/">> \o argv.shorturl
                  /\ sup'["ao"].result.archiveOrgUrl = ao.archiveOrgUrl
                  /\ ao'.warned
             ELSE /\ sup'["ao"].state = "prompting"
                  /\ sup'["ao"].failures = sup["ao"].failures + 1
                  /\ ao'.pc = "failed"]_vars

C10_Witness ==
    /\ sup["ao"].state = "resolved"
    /\ ao.warned
    /\ argv.shorturl = CustomAlias
    /\ sup["ao"].result.archiveOrgShortUrl = <<"https://v.gd/", "myalias">>

TaskPage(s) == IF s = "ao" THEN ao.page ELSE at.page

\* C11: an archive task that has returned or failed has closed the browser
\* page it opened, on every exit path.
C11_PageClosedOnExit ==
    \A s \in Sites : TaskPc(s) \in {"done", "failed"} => TaskPage(s) # "open"

\* C12: when a declined failure has reached main, the run is aborted with the
\* error reported and the process ends with a non-zero exit status.
C12_DeclinedExitsNonZero ==
    (main.pc = "exited" /\ \E s \in Sites : sup[s].state = "rejected") =>
        /\ main.failed /\ \E s \in Sites : main.err = sup[s].rejection
        /\ main.exitCode # 0

\* C13: a target given as 'none' opens no page, submits nothing and leaves its
\* URL unset; a target given as any other value than 'auto' opens no page, is
\* never at a prompt and returns that value unchanged; with --debug screenshot
\* neither task submits to an archive.
C13_PredefinedAndDisabled ==
    /\ argv.aoUrl # Auto =>
          /\ ao.page = "none" /\ ao.pc \in {"idle", "shorturl", "done", "failed"}
          /\ sup["ao"].state = "resolved" =>
                sup["ao"].result.archiveOrgUrl =
                    IF argv.aoUrl = None THEN Undefined ELSE argv.aoUrl
    /\ argv.atUrl # Auto =>
          /\ at.page = "none" /\ at.pc \in {"idle", "done"}
          /\ sup["at"].state = "resolved" =>
                sup["at"].result.archiveTodayUrl =
                    IF argv.atUrl = None THEN Undefined ELSE argv.atUrl
    /\ argv.debug = <<"screenshot">> =>
          /\ ao.page = "none" /\ ao.pc \notin {"submitting", "polling"}
          /\ at.page = "none" /\ at.pc \in {"idle", "done"}

C13_Witness ==
    /\ argv.debug = <<"screenshot">>
    /\ argv.atUrl = None
    /\ main.pc = "exited" /\ ~main.failed
    /\ main.archiveUrls.archiveOrgUrl = AoDebug
    /\ main.archiveUrls.archiveTodayUrl = Undefined

IsPrefix(a, b) == Len(a) <= Len(b) /\ a = SubSeq(b, 1, Len(a))

\* C14: for each producer, reportProgress handles the items in the order they
\* were yielded, the generator is never more than one yield ahead of its last
\* resumption, a string is resumed with no reply, and every prompt that was
\* resumed was answered exactly once, with that answer, in the generator that
\* yielded it, whatever the other producer does meanwhile.
C14_ChannelFifoAndReplies ==
    \A p \in Sites :
        LET c == chan[p]
        IN  /\ IsPrefix(c.handled, c.emitted)
            /\ \A i \in 1..Len(c.handled) : c.handled[i].from = p
            /\ Len(c.emitted) <= Len(c.received) + 1
            /\ c.gen = "running" => Len(c.received) = Len(c.emitted)
            /\ Len(c.received) <= Len(c.handled)
            /\ \A i \in 1..Len(c.received) :
                  /\ c.emitted[i].kind = "string" => c.received[i] = NoReply
                  /\ c.emitted[i].kind = "prompt" =>
                        /\ Cardinality({j \in 1..Len(c.asked) : c.asked[j].n = i}) = 1
                        /\ \E j \in 1..Len(c.asked) :
                              c.asked[j].n = i /\ c.received[i] = c.asked[j].answer
                  /\ c.emitted[i].kind # "other"
            /\ \A j \in 1..Len(c.asked) :
                  /\ c.asked[j].n <= Len(c.received)
                  /\ c.emitted[c.asked[j].n].kind = "prompt"

C14_Witness ==
    /\ chan["at"].received = <<NoReply, "no">> /\ chan["at"].gen = "suspended"
    /\ chan["at"].rp = "prompting"
    /\ chan["ao"].received = <<"yes">> /\ chan["ao"].rp = "prompting"

\* C15: after a failed submission navigation the current URL is offered to
\* the operator, and returned as archiveTodayUrl, only when the page is an
\* archived snapshot: never when it is the landing page or a submission page.
C15_CrashOfferOnlySnapshot ==
    at.pc = "promptCrash" => at.currentUrl \notin {AtLanding, AtSubmit}

\* C16: a negative answer to any of the three prompts of atArchive makes the
\* task fail: an attempt in which the operator refused returns no archive URL.
C16_RefusalFailsTask ==
    at.declined => at.pc # "done"

\* C17: at a submission page with the CAPTCHA title, atArchive throws without
\* a prompt when the page reached by the submission was a submission page
\* itself, and yields the CAPTCHA prompt when a prior snapshot exists.
C17_CaptchaOutcome ==
    [][\A pageTitle \in Titles :
          (/\ atArchive_Resolve(pageTitle)
           /\ ~Truthy(at.archiveTodayUrl)
           /\ Includes(at.pageUrl, "/submit")
           /\ pageTitle = "Attention Required!") =>
              IF Includes(at.originalUrl, "/submit")
              THEN /\ at'.pc = "failed"
                   /\ sup'["at"].state = "prompting"
                   /\ sup'["at"].failures = sup["at"].failures + 1
              ELSE /\ at'.pc = "promptCaptcha"
                   /\ sup' = sup]_vars

C17_Witness ==
    /\ at.pc = "promptCaptcha"
    /\ at.originalUrl = AtSnapshot
    /\ at.pageUrl = AtSubmit

\* C18: a secondary task that succeeded in archiving never returns the URL
\* of a submission page as archiveTodayUrl.
C18_NeverReturnsSubmitPage ==
    (argv.atUrl = Auto /\ sup["at"].state = "resolved") =>
        ~Includes(sup["at"].result.archiveTodayUrl, "/submit")

\* C19 as stated: a non-200 answer of the save page neither fails the task
\* nor lets it go on, and the task leaves Submitting only after a 200 answer.
C19_LeavesSubmittingOnlyAfter200 ==
    [][/\ \A status \in Statuses :
             (aoArchive_SaveNot200(status) \/ aoArchive_Submit(status)) /\ status # 200 =>
                 ao'.pc = "submitting" /\ sup' = sup
       /\ (ao.pc = "submitting" /\ ao'.pc # "submitting") => ao'.pc = "polling"]_vars

\* C19, amended: a non-200 answer of the save page neither fails the task nor
\* lets it go on to the form: the page is loaded again; the task goes on to
\* the crawl-result poll only after a 200 answer, and then it does; it leaves
\* Submitting otherwise only by a rejected navigation or form step, which
\* fails the attempt before the supervisor.
C19_Non200NeverFailsNorProceeds ==
    [][/\ \A status \in Statuses :
             (aoArchive_SaveNot200(status) \/ aoArchive_Submit(status)) =>
                 IF status # 200
                 THEN /\ ao'.pc = "submitting" /\ ao'.page = "open"
                      /\ ao'.non200 = ao.non200 + 1
                      /\ sup' = sup
                 ELSE ao'.pc = "polling" /\ sup' = sup
       /\ (ao.pc = "submitting" /\ ao'.pc # "submitting") =>
             \/ ao'.pc = "polling"
             \/ /\ ao'.pc = "failed"
                /\ sup'["ao"].state = "prompting"
                /\ sup'["ao"].failures = sup["ao"].failures + 1]_vars

C19_Witness ==
    ao.pc = "polling" /\ ao.non200 = MaxNon200 /\ sup["ao"].failures = 0

\* C20: the crawl-result poll makes at most 15 retries, each after a reload;
\* a failed attempt with the budget used up fails the task before the
\* supervisor, and no link is returned by that invocation.
C20_PollingBounded ==
    [][/\ ao'.polls <= retries
       /\ \A read \in Links \cup {Undefined} :
             (aoArchive_Poll(read) /\ (read = Undefined \/ read = SaveEndpoint)) =>
                 IF ao.polls < retries
                 THEN /\ ao'.pc = "polling" /\ ao'.polls = ao.polls + 1
                      /\ sup' = sup
                 ELSE /\ ao'.pc = "failed" /\ ao'.archiveOrgUrl = Undefined
                      /\ sup'["ao"].state = "prompting"
                      /\ sup'["ao"].failures = sup["ao"].failures + 1
                      /\ sup'["ao"].result = <<>>]_vars

C20_Witness ==
    /\ ao.pc = "failed" /\ ao.polls = retries
    /\ sup["ao"].state = "prompting"

C22_OwnSliceOnly ==
    /\ sup["ao"].state = "resolved" =>
          /\ DOMAIN sup["ao"].result = {"archiveOrgUrl", "archiveOrgShortUrl"}
          /\ Truthy(sup["ao"].result.archiveOrgShortUrl) =>
                Truthy(sup["ao"].result.archiveOrgUrl)
    /\ sup["at"].state = "resolved" =>
          DOMAIN sup["at"].result = {"archiveTodayUrl"}
    /\ ScreenshotStarted =>
          /\ main.archiveUrls.url = argv.url
          /\ main.archiveUrls.archiveOrgUrl = sup["ao"].result.archiveOrgUrl
          /\ main.archiveUrls.archiveOrgShortUrl = sup["ao"].result.archiveOrgShortUrl
          /\ main.archiveUrls.archiveTodayUrl = sup["at"].result.archiveTodayUrl

C22_Witness ==
    /\ ScreenshotStarted
    /\ sup["ao"].invocations = 2 /\ sup["at"].invocations = 1
    /\ main.archiveUrls.archiveOrgUrl = AoSnapshot
    /\ main.archiveUrls.archiveOrgShortUrl = GeneratedShort
    /\ main.archiveUrls.archiveTodayUrl = AtSnapshot

\* C23: when main has returned, after the screenshot stage or after a caught
\* archive or screenshot failure, and when the process has ended, the shared
\* browser is closed.
C23_BrowserReleased ==
    main.pc \in {"ended", "exited"} => browser = "closed"

C23_Witness ==
    /\ main.pc = "exited" /\ browser = "closed"
    /\ main.failed /\ main.err.site = "at"
    /\ sup["ao"].state = "resolved"

\* The enquirer prompts that await an answer: the retry prompt of each
\* supervisor and the prompt a running atArchive has yielded.
OutstandingPrompts ==
    {s \in Sites : sup[s].state = "prompting"}
        \cup {p \in {"promptCrash", "promptRearchive", "promptCaptcha"} :
                 Running("at") /\ at.pc = p}

\* C24: at most one operator prompt is outstanding at any time.
C24_OnePromptAtATime ==
    Cardinality(OutstandingPrompts) <= 1

\* C25: once main has caught a declined failure and the browser is closed,
\* the other target's task and supervisor issue no further prompt and start
\* no further invocation.
C25_QuietAfterAbort ==
    [][(/\ main.failed /\ browser = "closed"
        /\ \E s \in Sites : sup[s].state = "rejected") =>
           \A s \in Sites :
              /\ sup'[s].prompts = sup[s].prompts
              /\ sup'[s].invocations = sup[s].invocations]_vars

Other(s) == IF s = "ao" THEN "at" ELSE "ao"

TaskRecord(s) == IF s = "ao" THEN ao ELSE at

\* C26: a failure, a retry prompt's answer or a retry of one target leaves
\* the other target's supervisor and task as they are; a result, once there,
\* stays; and each target's generator has been invoked once plus once per
\* accepted retry of that target.
C26_SupervisorsIndependent ==
    [][\A s \in Sites :
          /\ (\/ retryableMethod_Retry(s)
              \/ retryableMethod_Decline(s)
              \/ sup'[s].failures # sup[s].failures) =>
                 /\ sup'[Other(s)] = sup[Other(s)]
                 /\ TaskRecord(Other(s))' = TaskRecord(Other(s))
          /\ sup[s].state = "resolved" => sup'[s] = sup[s]
          /\ sup'[s].invocations = 1 + sup'[s].accepted
          /\ sup'[s].invocations \in {sup[s].invocations, sup[s].invocations + 1}
          /\ sup'[s].invocations # sup[s].invocations => retryableMethod_Retry(s)]_vars

C26_Witness ==
    /\ sup["at"].state = "resolved" /\ sup["at"].invocations = 1
    /\ sup["at"].result.archiveTodayUrl = AtSnapshot
    /\ sup["ao"].state = "running" /\ sup["ao"].invocations = 3
    /\ ao.pc = "polling"

====
